---------------------------- MODULE Spec2Model ----------------------------
(***************************************************************************)
(* A model of the citation-candidate pipeline of Fewsats/citations-tool.   *)
(* Two near-duplicate implementations live in the repository:              *)
(*   RB  src/reference_builder.py   class ReferenceBuilder                 *)
(*   CP  src/citation_pipeline.py   class CitationPipeline                 *)
(* The variable impl says which of the two a behaviour runs.               *)
(*                                                                         *)
(* Strings are sequences of one-character strings, so that slicing,        *)
(* strip(), split() and startswith() are computed as Python computes them. *)
(* An Optional value is a sequence of length at most one: None is << >>,   *)
(* a present value v is << v >>.                                           *)
(***************************************************************************)
EXTENDS Integers, Sequences, FiniteSets, TLC

VARIABLES
    impl,           \* "RB" or "CP": which implementation runs
    pc,             \* position of the running operation
    err,            \* the exception that left the operation, or "none"
    \* ---- record parser (get_suggested_papers / find_papers_for_targets)
    text,           \* response.choices[0].message.content
    blocks,         \* the field blocks text was rendered from (<< >> if free text)
    pos,            \* index of the next line of the response
    current_paper,  \* the dict current_paper
    suggestions,    \* the list suggestions (RB) / papers (CP)
    \* ---- validator (validate_by_arxiv_url / validate_papers)
    papers,         \* the candidate objects handed in, mutated in place
    vi,             \* index of the candidate the loop is at
    validated,      \* validated_papers: references (indices) into papers
    last_results,   \* the list results of the validator's last answered query
    accepted,       \* history: how each accepted candidate was accepted
    calls,          \* history: the external calls issued, in order
    \* ---- expander (expand_by_key_authors / expand_by_authors)
    ei,             \* RB: index of the validated paper the outer loop is at
    key_authors,    \* the list key_authors
    ai,             \* index of the key author the search loop is at
    author_papers,  \* the list author_papers
    found,          \* history: entry ids returned by any author search
    all_papers,     \* the list all_papers
    unique_papers,  \* unique_papers
    selections,     \* the PAPER/REASON pairs read from the ranking response
    final_papers,   \* the list the expander returns
    \* ---- title matcher (_titles_match)
    paper_title,    \* the argument title1 (a candidate's title)
    result_title,   \* the argument title2 (an index result's title)
    match,          \* what _titles_match returned, None before the call
    \* ---- formatter (generate_bibtex)
    bib_papers,     \* the argument papers of generate_bibtex
    bi,             \* index of the paper the loop is at
    entries,        \* the list entries of (citation_key, entry) pairs
    \* ---- entry points (get_citations, the two main functions)
    entry_point,    \* "api", "rb_main" or "cp_main"; "none" for a phase run alone
    stage,          \* the phase the entry point has reached
    outcome,        \* how the entry point ended, "running" before that
    API_TOKEN,      \* main.py: the module-level API_TOKEN
    credentials     \* the bearer credential of the request, None if it has none

parserVars == <<text, blocks, pos, current_paper, suggestions>>

validatorVars == <<papers, vi, validated, last_results, accepted>>

expanderVars ==
    <<ei, key_authors, ai, author_papers, found, all_papers, unique_papers,
      selections, final_papers>>

titleVars == <<paper_title, result_title, match>>

\* the variables of the operations that stand apart from the three phases
bibVars == <<bib_papers, bi, entries>>

mainVars == <<entry_point, stage, outcome, API_TOKEN, credentials>>

restVars == <<titleVars, bibVars, mainVars>>

vars == <<impl, pc, err, parserVars, validatorVars, calls, expanderVars, restVars>>

Impls == {"RB", "CP"}

\* ------------------------------------------------------------------------
\* Optional values
\* ------------------------------------------------------------------------
None == << >>

Some(v) == << v >>

\* Python truthiness of an Optional[str] / Optional[list]: None and the empty
\* string (list) are both falsy.
Truthy(o) == o # None /\ o[1] # << >>

\* ------------------------------------------------------------------------
\* Python string primitives on sequences of characters
\* ------------------------------------------------------------------------
NL == "\n"

Whitespace == {" ", NL, "\t"}

Digits == {"0", "1", "2", "3", "4", "5", "6", "7", "8", "9"}

\* s[n:]
Drop(s, n) == IF n >= Len(s) THEN << >> ELSE SubSeq(s, n + 1, Len(s))

\* s.startswith(p)
StartsWith(s, p) == Len(s) >= Len(p) /\ SubSeq(s, 1, Len(p)) = p

RECURSIVE LStrip(_)
LStrip(s) == IF s # << >> /\ Head(s) \in Whitespace THEN LStrip(Tail(s)) ELSE s

RECURSIVE RStrip(_)
RStrip(s) ==
    IF s # << >> /\ s[Len(s)] \in Whitespace
    THEN RStrip(SubSeq(s, 1, Len(s) - 1))
    ELSE s

\* s.strip()
Strip(s) == RStrip(LStrip(s))

\* the positions of the separator c in s
SepPositions(s, c) == {i \in 1..Len(s) : s[i] = c}

\* s.split(c): never empty, ''.split(c) == ['']; part k lies between the
\* (k-1)-th and the k-th separator
Split(s, c) ==
    LET seps == SepPositions(s, c)
        n == Cardinality(seps)
        bound(k) ==
            IF k = 0 THEN 0
            ELSE IF k = n + 1 THEN Len(s) + 1
            ELSE CHOOSE i \in seps : Cardinality({j \in seps : j < i}) = k - 1
    IN  [k \in 1..(n + 1) |-> SubSeq(s, bound(k - 1) + 1, bound(k) - 1)]

RECURSIVE Join(_, _)
\* sep.join(parts)
Join(parts, sep) ==
    IF parts = << >> THEN << >>
    ELSE IF Len(parts) = 1 THEN parts[1]
    ELSE parts[1] \o sep \o Join(Tail(parts), sep)

\* [a.strip() for a in s]
StripAll(s) == [i \in 1..Len(s) |-> Strip(s[i])]

DigitVal(c) ==
    CASE c = "0" -> 0 [] c = "1" -> 1 [] c = "2" -> 2 [] c = "3" -> 3
      [] c = "4" -> 4 [] c = "5" -> 5 [] c = "6" -> 6 [] c = "7" -> 7
      [] c = "8" -> 8 [] c = "9" -> 9

RECURSIVE DigitsVal(_, _)
DigitsVal(s, acc) ==
    IF s = << >> THEN acc ELSE DigitsVal(Tail(s), 10 * acc + DigitVal(Head(s)))

AllDigits(s) == s # << >> /\ \A i \in 1..Len(s) : s[i] \in Digits

\* int(s) succeeds (no ValueError): optional sign, then decimal digits
IsInt(s) ==
    LET t == Strip(s) IN
    IF t # << >> /\ Head(t) \in {"+", "-"} THEN AllDigits(Tail(t)) ELSE AllDigits(t)

\* int(s) where IsInt(s)
ToInt(s) ==
    LET t == Strip(s) IN
    IF Head(t) = "-" THEN 0 - DigitsVal(Tail(t), 0)
    ELSE IF Head(t) = "+" THEN DigitsVal(Tail(t), 0)
    ELSE DigitsVal(t, 0)

\* ------------------------------------------------------------------------
\* Record parser: ReferenceBuilder.get_suggested_papers (RB) and the parse
\* loop of CitationPipeline.find_papers_for_targets (CP), for one response
\* ------------------------------------------------------------------------
TitleLabel == <<"T", "i", "t", "l", "e", ":">>

YearLabel == <<"Y", "e", "a", "r", ":">>

AuthorsLabel == <<"A", "u", "t", "h", "o", "r", "s", ":">>

RelevanceLabel == <<"R", "e", "l", "e", "v", "a", "n", "c", "e", ":">>

UrlLabel == <<"A", "r", "x", "i", "v", " ", "U", "R", "L", ":">>

\* current_paper = {}
EmptyDict ==
    [title |-> None, authors |-> None, year |-> None,
     arxiv_url |-> None, relevance |-> None]

\* response.choices[0].message.content.strip().split('\n')
ResponseLines(t) == Split(Strip(t), NL)

\* RB slices the locator with line[11:], CP with line[10:]
UrlSkip(im) == IF im = "RB" THEN 11 ELSE 10

\* mutant: a Year line that is not an integer discards the block
AfterLineBadYearResets(im, cp, line) ==
    IF line = << >>
    THEN IF im = "RB" \/ Truthy(cp.title) THEN EmptyDict ELSE cp
    ELSE IF StartsWith(line, TitleLabel)
    THEN [EmptyDict EXCEPT !.title = Some(Strip(Drop(line, 6)))]
    ELSE IF StartsWith(line, YearLabel)
    THEN IF IsInt(Strip(Drop(line, 5)))
         THEN [cp EXCEPT !.year = Some(ToInt(Strip(Drop(line, 5))))]
         ELSE EmptyDict
    ELSE IF StartsWith(line, AuthorsLabel)
    THEN [cp EXCEPT !.authors = Some(StripAll(Split(Drop(line, 8), ",")))]
    ELSE IF StartsWith(line, RelevanceLabel)
    THEN [cp EXCEPT !.relevance = Some(Strip(Drop(line, 10)))]
    ELSE IF StartsWith(line, UrlLabel)
    THEN [cp EXCEPT !.arxiv_url = Some(Strip(Drop(line, UrlSkip(im))))]
    ELSE cp

\* mutant: a Title line keeps the fields read before it
AfterLineTitleKeepsFields(im, cp, line) ==
    IF line = << >>
    THEN IF im = "RB" \/ Truthy(cp.title) THEN EmptyDict ELSE cp
    ELSE IF StartsWith(line, TitleLabel)
    THEN [cp EXCEPT !.title = Some(Strip(Drop(line, 6)))]
    ELSE IF StartsWith(line, YearLabel)
    THEN IF IsInt(Strip(Drop(line, 5)))
         THEN [cp EXCEPT !.year = Some(ToInt(Strip(Drop(line, 5))))]
         ELSE cp
    ELSE IF StartsWith(line, AuthorsLabel)
    THEN [cp EXCEPT !.authors = Some(StripAll(Split(Drop(line, 8), ",")))]
    ELSE IF StartsWith(line, RelevanceLabel)
    THEN [cp EXCEPT !.relevance = Some(Strip(Drop(line, 10)))]
    ELSE IF StartsWith(line, UrlLabel)
    THEN [cp EXCEPT !.arxiv_url = Some(Strip(Drop(line, UrlSkip(im))))]
    ELSE cp

\* current_paper after one (stripped) line of the loop body
AfterLine(im, cp, line) ==
    IF line = << >>
    THEN IF im = "RB" \/ Truthy(cp.title) THEN EmptyDict ELSE cp
    ELSE IF StartsWith(line, TitleLabel)
    THEN [EmptyDict EXCEPT !.title = Some(Strip(Drop(line, 6)))]
    ELSE IF StartsWith(line, YearLabel)
    THEN IF IsInt(Strip(Drop(line, 5)))
         THEN [cp EXCEPT !.year = Some(ToInt(Strip(Drop(line, 5))))]
         ELSE cp
    ELSE IF StartsWith(line, AuthorsLabel)
    THEN [cp EXCEPT !.authors = Some(StripAll(Split(Drop(line, 8), ",")))]
    ELSE IF StartsWith(line, RelevanceLabel)
    THEN [cp EXCEPT !.relevance = Some(Strip(Drop(line, 10)))]
    ELSE IF StartsWith(line, UrlLabel)
    THEN [cp EXCEPT !.arxiv_url = Some(Strip(Drop(line, UrlSkip(im))))]
    ELSE cp

\* the line closes the block being accumulated
ClosesBlock(line) == line = << >> \/ StartsWith(line, TitleLabel)

\* Paper(**current_paper) raises TypeError when the required field authors
\* is missing; SuggestedPaper(...) is built with defaults and cannot fail
ConstructorFails(im, cp) == im = "CP" /\ cp.authors = None

\* SuggestedPaper(title=..., authors=current_paper.get('authors', []), ...)
\* and Paper(**current_paper)
MakeRecord(im, cp) ==
    IF im = "RB"
    THEN [title |-> cp.title[1],
          authors |-> IF cp.authors = None THEN << >> ELSE cp.authors[1],
          year |-> cp.year, arxiv_url |-> cp.arxiv_url,
          pdf_url |-> None, abstract |-> None, arxiv_id |-> None]
    ELSE [title |-> cp.title[1], authors |-> cp.authors[1],
          year |-> cp.year, arxiv_id |-> None, arxiv_url |-> cp.arxiv_url,
          pdf_url |-> None, abstract |-> None, relevance |-> cp.relevance,
          source |-> "direct"]

\* one iteration of "for line in ....split('\n')"
ParseLine ==
    /\ pc = "parse"
    /\ pos <= Len(ResponseLines(text))
    /\ LET line == Strip(ResponseLines(text)[pos])
           emits == ClosesBlock(line) /\ Truthy(current_paper.title)
       IN  IF emits /\ ConstructorFails(impl, current_paper)
           THEN /\ pc' = "raised"
                /\ err' = "TypeError"
                /\ UNCHANGED <<pos, current_paper, suggestions>>
           ELSE /\ suggestions' =
                      IF emits
                      THEN Append(suggestions, MakeRecord(impl, current_paper))
                      ELSE suggestions
                /\ current_paper' = AfterLine(impl, current_paper, line)
                /\ pos' = pos + 1
                /\ UNCHANGED <<pc, err>>
    /\ UNCHANGED <<impl, restVars, text, blocks, validatorVars, calls, expanderVars>>

\* "Add the last paper if exists" and return
ParseEnd ==
    /\ pc = "parse"
    /\ pos > Len(ResponseLines(text))
    /\ IF Truthy(current_paper.title) /\ ConstructorFails(impl, current_paper)
       THEN /\ pc' = "raised"
            /\ err' = "TypeError"
            /\ UNCHANGED suggestions
       ELSE /\ suggestions' =
                  IF Truthy(current_paper.title)
                  THEN Append(suggestions, MakeRecord(impl, current_paper))
                  ELSE suggestions
            /\ pc' = "parsed"
            /\ UNCHANGED err
    /\ UNCHANGED <<impl, restVars, text, blocks, pos, current_paper, validatorVars, calls, expanderVars>>

NextParse == ParseLine \/ ParseEnd

\* ---- inputs of the parser ----------------------------------------------
MaxLines == 3

MaxBlocks == 2

\* all sequences over S of length at most n
SeqsUpTo(S, n) == UNION {[1..k -> S] : k \in 0..n}

ParserLines ==
    { TitleLabel \o <<" ", "a">>,
      TitleLabel \o <<"B", " ", "c">>,
      <<" ">> \o TitleLabel \o <<" ", "a", " ">>,
      TitleLabel \o <<" ">>,
      YearLabel \o <<" ", "7">>,
      YearLabel \o <<" ", "n", "/", "a">>,
      AuthorsLabel \o <<" ", "p", ",", " ", "q">>,
      UrlLabel \o <<" ", "u">>,
      UrlLabel \o <<"u">>,
      RelevanceLabel \o <<" ", "r">>,
      << >>,
      <<"z", "z">> }

ParserTexts == {Join(ls, <<NL>>) : ls \in SeqsUpTo(ParserLines, MaxLines)}

\* the state of an operation that is not running
IdleParser ==
    /\ text = << >>
    /\ blocks = << >>
    /\ pos = 1
    /\ current_paper = EmptyDict
    /\ suggestions = << >>

IdleValidator ==
    /\ papers = << >>
    /\ vi = 1
    /\ validated = << >>
    /\ last_results = << >>
    /\ accepted = << >>

IdleExpander ==
    /\ ei = 1
    /\ key_authors = << >>
    /\ ai = 1
    /\ author_papers = << >>
    /\ found = {}
    /\ all_papers = << >>
    /\ unique_papers = << >>
    /\ selections = << >>
    /\ final_papers = << >>

IdleTitles ==
    /\ paper_title = << >>
    /\ result_title = << >>
    /\ match = None

IdleBib ==
    /\ bib_papers = << >>
    /\ bi = 1
    /\ entries = << >>

IdleMain ==
    /\ entry_point = "none"
    /\ stage = "none"
    /\ outcome = "running"
    /\ API_TOKEN = << >>
    /\ credentials = None

IdleRest == IdleTitles /\ IdleBib /\ IdleMain

InitParser(t, b) ==
    /\ impl \in Impls
    /\ pc = "parse"
    /\ err = "none"
    /\ IdleValidator
    /\ IdleExpander
    /\ IdleRest
    /\ calls = << >>
    /\ text = t
    /\ blocks = b
    /\ pos = 1
    /\ current_paper = EmptyDict
    /\ suggestions = << >>

\* the parser on free text
InitParse == \E t \in ParserTexts : InitParser(t, << >>)

SpecParse == InitParse /\ [][NextParse]_vars

\* ---- well-formed field blocks and their rendering ------------------------
DigitChar(d) ==
    CASE d = 0 -> "0" [] d = 1 -> "1" [] d = 2 -> "2" [] d = 3 -> "3"
      [] d = 4 -> "4" [] d = 5 -> "5" [] d = 6 -> "6" [] d = 7 -> "7"
      [] d = 8 -> "8" [] d = 9 -> "9"

RECURSIVE IntToStr(_)
\* str(n) for n >= 0
IntToStr(n) ==
    IF n < 10 THEN <<DigitChar(n)>>
    ELSE Append(IntToStr(n \div 10), DigitChar(n % 10))

BlockTitles == { <<"a">>, <<"B", " ", "c">> }

BlockYears == { None, Some(7), Some(2017) }

BlockAuthors == { << >>, << <<"p">> >>, << <<"p", " ", "q">>, <<"r">> >> }

\* a field block in the format the prompt asks for: Title first, then the
\* optional Year / Arxiv URL / Authors / Relevance lines; blank says whether
\* a blank line follows the block
Blocks ==
    [title : BlockTitles, year : BlockYears, authors : BlockAuthors,
     extras : BOOLEAN, blank : BOOLEAN]

RenderBlock(b) ==
    << TitleLabel \o <<" ">> \o b.title >>
    \o (IF b.year = None THEN << >>
        ELSE << YearLabel \o <<" ">> \o IntToStr(b.year[1]) >>)
    \o (IF b.extras THEN << UrlLabel \o <<" ", "u">> >> ELSE << >>)
    \o (IF b.authors = << >> THEN << >>
        ELSE << AuthorsLabel \o <<" ">> \o Join(b.authors, <<",", " ">>) >>)
    \o (IF b.extras THEN << RelevanceLabel \o <<" ", "r">> >> ELSE << >>)
    \o (IF b.blank THEN << << >> >> ELSE << >>)

RECURSIVE RenderLines(_)
RenderLines(bs) ==
    IF bs = << >> THEN << >> ELSE RenderBlock(Head(bs)) \o RenderLines(Tail(bs))

RenderBlocks(bs) == Join(RenderLines(bs), <<NL>>)

\* the parser on rendered field blocks
InitRoundTrip ==
    \E bs \in SeqsUpTo(Blocks, MaxBlocks) \ {<< >>} :
        InitParser(RenderBlocks(bs), bs)

SpecRoundTrip == InitRoundTrip /\ [][NextParse]_vars

\* C6: N field blocks with non-empty titles parse to exactly N records, in
\* block order, with the blocks' title, year and authors, whether a blank
\* line or only the next "Title:" line separates them.
C6_RoundTrip ==
    /\ pc # "raised"
    /\ pc = "parsed" =>
          /\ Len(suggestions) = Len(blocks)
          /\ \A i \in 1..Len(blocks) :
                /\ suggestions[i].title = blocks[i].title
                /\ suggestions[i].year = blocks[i].year
                /\ suggestions[i].authors = blocks[i].authors

\* C6 restricted to ReferenceBuilder.get_suggested_papers
C6_RoundTripRB == impl = "RB" => C6_RoundTrip

\* C7: the record parser never raises, whatever the response text.
C7_NeverRaises == pc # "raised" /\ err = "none"

\* C7 restricted to ReferenceBuilder.get_suggested_papers
C7_NeverRaisesRB == impl = "RB" => C7_NeverRaises

\* ------------------------------------------------------------------------
\* Title matcher: _titles_match and its inner normalize
\* ------------------------------------------------------------------------
UpperChars ==
    <<"A", "B", "C", "D", "E", "F", "G", "H", "I", "J", "K", "L", "M",
      "N", "O", "P", "Q", "R", "S", "T", "U", "V", "W", "X", "Y", "Z">>

LowerChars ==
    <<"a", "b", "c", "d", "e", "f", "g", "h", "i", "j", "k", "l", "m",
      "n", "o", "p", "q", "r", "s", "t", "u", "v", "w", "x", "y", "z">>

Range(s) == {s[i] : i \in DOMAIN s}

\* c.lower()
LowerChar(c) ==
    IF c \in Range(UpperChars)
    THEN LowerChars[CHOOSE i \in DOMAIN UpperChars : UpperChars[i] = c]
    ELSE c

\* title.lower()
Lower(s) == [i \in 1..Len(s) |-> LowerChar(s[i])]

\* the characters [^\w\s] does not match: \w is letters, digits and "_",
\* \s is whitespace
KeptByNormalize(c) ==
    c \in Range(UpperChars) \cup Range(LowerChars) \cup Digits \cup {"_"} \cup Whitespace

\* re.sub(r'[^\w\s]', '', title.lower())
normalize(title) == SelectSeq(Lower(title), KeptByNormalize)

\* mutant: only the first title is normalized
_titles_matchOneSided(title1, title2) == normalize(title1) = title2

_titles_match(title1, title2) == normalize(title1) = normalize(title2)

\* ---- the title matcher called on its own --------------------------------
MaxTitleLen == 2

TitleChars == {"A", "a", "b", "1", " ", ".", "_"}

Titles == SeqsUpTo(TitleChars, MaxTitleLen)

InitTitles ==
    /\ impl \in Impls
    /\ pc = "t_call"
    /\ err = "none"
    /\ IdleParser
    /\ IdleValidator
    /\ IdleExpander
    /\ calls = << >>
    /\ IdleBib
    /\ IdleMain
    /\ paper_title \in Titles
    /\ result_title \in Titles
    /\ match = None

\* self._titles_match(paper.title, result.title)
TitlesMatch ==
    /\ pc = "t_call"
    /\ match' = Some(_titles_match(paper_title, result_title))
    /\ pc' = "t_done"
    /\ UNCHANGED <<impl, err, parserVars, validatorVars, calls, expanderVars,
                   paper_title, result_title, bibVars, mainVars>>

NextTitles == TitlesMatch

SpecTitles == InitTitles /\ [][NextTitles]_vars

\* C11: title matching is reflexive and symmetric, and normalize is
\* idempotent: normalize(normalize(a)) = normalize(a).
C11_Equivalence ==
    pc = "t_done" =>
        /\ _titles_match(paper_title, paper_title)
        /\ _titles_match(result_title, result_title)
        /\ match = Some(_titles_match(result_title, paper_title))
        /\ normalize(normalize(paper_title)) = normalize(paper_title)
        /\ normalize(normalize(result_title)) = normalize(result_title)

\* C11 witness: two titles that differ were compared and matched, and
\* normalization changed the first of them
C11_Witness ==
    /\ pc = "t_done"
    /\ paper_title # result_title
    /\ normalize(paper_title) # paper_title
    /\ match = Some(TRUE)

\* c is a letter, a digit or whitespace
LetterDigitOrSpace(c) ==
    c \in Range(UpperChars) \cup Range(LowerChars) \cup Digits \cup Whitespace

\* a title with its case folded and every character that is not a letter,
\* a digit or whitespace left out
Skeleton(title) == SelectSeq(Lower(title), LetterDigitOrSpace)

\* C12: two titles that differ only in letter case and in characters that
\* are not letters, digits or whitespace are judged equal by _titles_match.
C12_CaseAndPunctuationIgnored ==
    (pc = "t_done" /\ Skeleton(paper_title) = Skeleton(result_title)) =>
        match = Some(TRUE)

\* C12 for titles without an underscore
C12_IgnoredUnlessUnderscore ==
    (/\ pc = "t_done"
     /\ Skeleton(paper_title) = Skeleton(result_title)
     /\ "_" \notin Range(paper_title) \cup Range(result_title)) =>
        match = Some(TRUE)

\* ------------------------------------------------------------------------
\* The bibliographic index (arXiv), seen through arxiv.Client().results
\* ------------------------------------------------------------------------
MaxResults == 2

Min(a, b) == IF a < b THEN a ELSE b

\* the results the index can hand out: entry_id, title, authors (names),
\* published (None or the year), summary, pdf_url
Catalogue ==
    { [entry_id |-> <<"e", "/", "1">>, title |-> <<"A", "!">>,
       authors |-> << <<"p", " ", "q">>, <<"r">> >>, published |-> Some(2017),
       summary |-> "s1", pdf_url |-> "pdf1"],
      [entry_id |-> <<"e", "/", "2">>, title |-> <<"a">>,
       authors |-> << >>, published |-> None,
       summary |-> "s2", pdf_url |-> "pdf2"] }

\* every behaviour of one query that asks for at most n results: the call
\* raises, or returns a list of at most n results
IndexOutcomes(n) ==
    {[ok |-> FALSE, results |-> << >>]}
    \cup {[ok |-> TRUE, results |-> r] : r \in SeqsUpTo(Catalogue, Min(n, MaxResults))}

\* an entry of calls for an index query
IndexCall(op, for, ok) == [svc |-> "index", op |-> op, for |-> for, ok |-> ok]

\* an entry of calls for a generative-service call
GptCall(op, for) == [svc |-> "gpt", op |-> op, for |-> for, ok |-> TRUE]

\* ------------------------------------------------------------------------
\* Validator: ReferenceBuilder.validate_by_arxiv_url + find_by_title (RB),
\* CitationPipeline.validate_papers + _search_arxiv_by_title (CP)
\* ------------------------------------------------------------------------
ArxivOrg == <<"a", "r", "x", "i", "v", ".", "o", "r", "g">>

AbsPrefix ==
    <<"h", "t", "t", "p", "s", ":", "/", "/">> \o ArxivOrg \o <<"/", "a", "b", "s", "/">>

\* sub in s
Contains(s, sub) ==
    \E i \in 0..(Len(s) - Len(sub)) : SubSeq(s, i + 1, i + Len(sub)) = sub

\* s.split('/')[-1]
LastSegment(s) == LET parts == Split(s, "/") IN parts[Len(parts)]

\* "if paper.arxiv_url:" and "if 'arxiv.org' in paper.arxiv_url and arxiv_id:"
UrlLookupIssued(paper) ==
    /\ Truthy(paper.arxiv_url)
    /\ Contains(paper.arxiv_url[1], ArxivOrg)
    /\ LastSegment(paper.arxiv_url[1]) # << >>

\* mutant: the locator path without the title check
UrlAcceptsAnyResult(paper, results) == results # << >>

\* "if results and self._titles_match(paper.title, results[0].title):"
UrlAccepts(paper, results) ==
    results # << >> /\ _titles_match(paper.title, results[1].title)

\* the assignments both paths make to the accepted paper
Enrich(paper, result) ==
    [paper EXCEPT !.arxiv_id = Some(result.entry_id),
                  !.pdf_url = Some(result.pdf_url),
                  !.abstract = Some(result.summary),
                  !.authors = result.authors,
                  !.year = IF result.published # None THEN result.published ELSE @]

\* the title paths also rewrite the locator
EnrichByTitle(paper, result) ==
    [Enrich(paper, result) EXCEPT
        !.arxiv_url = Some(AbsPrefix \o LastSegment(result.entry_id))]

\* mutant: no "continue" / no flag, the fallback always runs
AfterUrlAlwaysFallback(acceptedByUrl) == "v_title"

\* where the loop goes after the locator block: RB's flag validated and
\* CP's continue both skip the title fallback of an accepted candidate
AfterUrl(acceptedByUrl) == IF acceptedByUrl THEN "v_url" ELSE "v_title"

\* "except Exception as e:" around the locator block (RB 144, CP 217)
UrlLookupCatches(im) == TRUE

\* the locator block of one loop iteration
ValidateByUrl ==
    /\ pc = "v_url"
    /\ vi <= Len(papers)
    /\ IF ~UrlLookupIssued(papers[vi])
       THEN /\ pc' = AfterUrl(FALSE)
            /\ UNCHANGED <<papers, vi, validated, last_results, accepted, calls, err>>
       ELSE \E out \in IndexOutcomes(MaxResults) :
            /\ calls' = Append(calls, IndexCall("id", vi, out.ok))
            /\ last_results' = IF out.ok THEN out.results ELSE last_results
            /\ IF ~out.ok /\ ~UrlLookupCatches(impl)
               THEN /\ pc' = "raised"
                    /\ err' = "Exception"
                    /\ UNCHANGED <<papers, vi, validated, accepted>>
               ELSE IF out.ok /\ UrlAccepts(papers[vi], out.results)
               THEN /\ papers' = [papers EXCEPT ![vi] = Enrich(@, out.results[1])]
                    /\ validated' = Append(validated, vi)
                    /\ accepted' = Append(accepted,
                          [cand |-> vi, via |-> "url", result |-> out.results[1]])
                    /\ pc' = AfterUrl(TRUE)
                    /\ vi' = IF AfterUrl(TRUE) = "v_url" THEN vi + 1 ELSE vi
                    /\ UNCHANGED err
               ELSE /\ pc' = AfterUrl(FALSE)
                    /\ UNCHANGED <<papers, vi, validated, accepted, err>>
    /\ UNCHANGED <<impl, restVars, parserVars, expanderVars>>

\* max_results of the title query
TitleMaxResults(im) == IF im = "RB" THEN 5 ELSE 10

\* mutant: the scan keeps the last result whose title matches
LastMatch(title, results) ==
    IF \E i \in 1..Len(results) : _titles_match(title, results[i].title)
    THEN CHOOSE i \in 1..Len(results) :
            /\ _titles_match(title, results[i].title)
            /\ \A j \in (i + 1)..Len(results) : ~_titles_match(title, results[j].title)
    ELSE 0

\* index of the first result whose title matches, 0 if none
FirstMatch(title, results) ==
    IF \E i \in 1..Len(results) : _titles_match(title, results[i].title)
    THEN CHOOSE i \in 1..Len(results) :
            /\ _titles_match(title, results[i].title)
            /\ \A j \in 1..(i - 1) : ~_titles_match(title, results[j].title)
    ELSE 0

\* what the operator can type at "Enter number of matching paper"
PromptInputs == { <<"0">>, <<"1">>, <<"2">>, <<"9">>, <<"x">> }

\* every behaviour of input(): it raises EOFError, or returns what was typed
PromptOutcomes ==
    {[eof |-> TRUE, typed |-> << >>]}
    \cup {[eof |-> FALSE, typed |-> c] : c \in PromptInputs}

\* "choice.isdigit() and 0 < int(choice) <= len(results)": the result the
\* operator picked, 0 if none
PromptChoice(choice, results) ==
    IF AllDigits(choice) /\ 0 < DigitsVal(choice, 0) /\ DigitsVal(choice, 0) <= Len(results)
    THEN DigitsVal(choice, 0)
    ELSE 0

\* CP asks the operator when no title matches and there are results
PromptShown(im, title, results) ==
    im = "CP" /\ FirstMatch(title, results) = 0 /\ results # << >>

\* mutant: the title search without its try/except
TitleSearchUncaught(im) == FALSE

\* "except Exception as e: ... return None" around the whole title search,
\* the operator prompt included (RB 421, CP 279)
TitleSearchCatches(im) == TRUE

\* mutant: the title search writes the top result into the candidate
\* before it looks for a match
AfterTitleSearchEager(paper, results, m, picked) ==
    IF results = << >> THEN paper
    ELSE EnrichByTitle(paper, results[IF m > 0 THEN m ELSE IF picked > 0 THEN picked ELSE 1])

\* the candidate when the title search returns: the assignments stand
\* inside "if self._titles_match(...)" (RB 408-415, CP 246-254) and inside
\* the check of the operator's choice (CP 265-273); no other path of the
\* search assigns to paper
AfterTitleSearch(paper, results, m, picked) ==
    IF m > 0 THEN EnrichByTitle(paper, results[m])
    ELSE IF picked > 0 THEN EnrichByTitle(paper, results[picked])
    ELSE paper

\* find_by_title / _search_arxiv_by_title for the candidate at vi, and the
\* append of its result
FindByTitle ==
    /\ pc = "v_title"
    /\ \E out \in IndexOutcomes(TitleMaxResults(impl)) :
       \E inp \in IF out.ok /\ PromptShown(impl, papers[vi].title, out.results)
                  THEN PromptOutcomes
                  ELSE {[eof |-> FALSE, typed |-> << >>]} :
       LET paper == papers[vi]
           m == FirstMatch(paper.title, out.results)
           shown == out.ok /\ PromptShown(impl, paper.title, out.results)
           picked == IF shown /\ ~inp.eof THEN PromptChoice(inp.typed, out.results) ELSE 0
           raises == ~out.ok \/ (shown /\ inp.eof)
       IN  /\ calls' = Append(calls, IndexCall("title", vi, out.ok))
           /\ last_results' = IF out.ok THEN out.results ELSE last_results
           /\ IF raises /\ ~TitleSearchCatches(impl)
              THEN /\ pc' = "raised"
                   /\ err' = "Exception"
                   /\ UNCHANGED <<papers, vi, validated, accepted>>
              ELSE /\ papers' = [papers EXCEPT ![vi] =
                                     AfterTitleSearch(@, out.results, m, picked)]
                   /\ IF out.ok /\ m > 0
                      THEN /\ validated' = Append(validated, vi)
                           /\ accepted' = Append(accepted,
                                 [cand |-> vi, via |-> "title", result |-> out.results[m]])
                      ELSE IF picked > 0
                      THEN /\ validated' = Append(validated, vi)
                           /\ accepted' = Append(accepted,
                                 [cand |-> vi, via |-> "prompt", result |-> out.results[picked]])
                      ELSE UNCHANGED <<validated, accepted>>
                   /\ vi' = vi + 1
                   /\ pc' = "v_url"
                   /\ UNCHANGED err
    /\ UNCHANGED <<impl, restVars, parserVars, expanderVars>>

\* the loop is over: return validated_papers
ValidateEnd ==
    /\ pc = "v_url"
    /\ vi > Len(papers)
    /\ pc' = "validated"
    /\ UNCHANGED <<impl, restVars, err, parserVars, validatorVars, calls, expanderVars>>

NextValidate == ValidateByUrl \/ FindByTitle \/ ValidateEnd

\* ---- inputs of the validator ---------------------------------------------
MaxCands == 2

CandTitles == { <<"A", ".">>, <<"c">> }

CandUrls ==
    { None,
      Some(ArxivOrg \o <<"/", "a", "b", "s", "/", "1">>),
      Some(ArxivOrg \o <<"/">>),
      Some(<<"x", "/", "1">>) }

\* candidates as the parser builds them
Candidates(im) ==
    { MakeRecord(im, [title |-> Some(t), authors |-> Some(<< <<"z">> >>),
                      year |-> Some(7), arxiv_url |-> u, relevance |-> None]) :
        t \in CandTitles, u \in CandUrls }

InitValidate ==
    /\ impl \in Impls
    /\ pc = "v_url"
    /\ err = "none"
    /\ IdleRest
    /\ IdleParser
    /\ IdleExpander
    /\ papers \in SeqsUpTo(Candidates(impl), MaxCands)
    /\ vi = 1
    /\ validated = << >>
    /\ last_results = << >>
    /\ accepted = << >>
    /\ calls = << >>

SpecValidate == InitValidate /\ [][NextValidate]_vars

\* ---- claims about the validator ------------------------------------------
\* the records the validator returns
ValidatorOutput == [k \in 1..Len(validated) |-> papers[validated[k]]]

\* C1 (as stated): every record returned by either validator was enriched
\* from an index result whose title matches the candidate's title.
C1_Soundness ==
    \A k \in 1..Len(accepted) :
        /\ accepted[k].cand = validated[k]
        /\ ValidatorOutput[k].arxiv_id = Some(accepted[k].result.entry_id)
        /\ _titles_match(ValidatorOutput[k].title, accepted[k].result.title)

\* C1 (amended): the same, except for the records the operator picked at
\* the prompt of CitationPipeline._search_arxiv_by_title, which
\* ReferenceBuilder does not have.
C1_SoundnessUnlessPicked ==
    \A k \in 1..Len(accepted) :
        /\ accepted[k].cand = validated[k]
        /\ ValidatorOutput[k].arxiv_id = Some(accepted[k].result.entry_id)
        /\ accepted[k].via = "prompt" => impl = "CP"
        /\ accepted[k].via # "prompt" =>
              _titles_match(ValidatorOutput[k].title, accepted[k].result.title)

\* C1 witness: validation returned a record accepted on a match of titles
\* that differ as text, once by the locator and once by the title search
C1_Witness ==
    /\ pc = "validated"
    /\ \E j, k \in 1..Len(accepted) :
          /\ accepted[j].via = "url"
          /\ accepted[k].via = "title"
          /\ ValidatorOutput[k].title # accepted[k].result.title

\* C8: a failed identifier lookup is followed by the title fallback for the
\* same candidate; a failed title search leaves the candidate out; every
\* candidate is still handled and validation never raises.
C8_FailureIsolation ==
    /\ err = "none"
    /\ pc # "raised"
    /\ \A n \in 1..Len(calls) :
          /\ (calls[n].op = "id" /\ ~calls[n].ok) =>
                IF n < Len(calls)
                THEN calls[n + 1].op = "title" /\ calls[n + 1].for = calls[n].for
                ELSE pc = "v_title" /\ vi = calls[n].for
          /\ (calls[n].op = "title" /\ ~calls[n].ok) =>
                calls[n].for \notin Range(validated)
    /\ pc = "validated" =>
          \A i \in 1..Len(papers) :
              \/ i \in Range(validated)
              \/ \E n \in 1..Len(calls) : calls[n].op = "title" /\ calls[n].for = i

\* C8 witness: the identifier lookup of the first candidate raised, the
\* fallback accepted it; the title search of the second candidate raised
\* and validation still returned
C8_Witness ==
    /\ pc = "validated"
    /\ Len(papers) = 2
    /\ validated = <<1>>
    /\ \E n \in 1..Len(calls) : calls[n] = IndexCall("id", 1, FALSE)
    /\ \E n \in 1..Len(calls) : calls[n] = IndexCall("title", 2, FALSE)

\* C9: the output is a subsequence of the input: positions strictly
\* increase, so order is kept and no candidate is returned twice, whether
\* by the locator path, the title fallback or both.
C9_Subsequence ==
    /\ \A k \in 1..Len(validated) : validated[k] \in 1..Len(papers)
    /\ \A j, k \in 1..Len(validated) : j < k => validated[j] < validated[k]
    /\ \A j, k \in 1..Len(accepted) : j # k => accepted[j].cand # accepted[k].cand

\* C9 witness: two candidates accepted, the first by its locator, the
\* second by the title fallback after its locator lookup did not accept
C9_Witness ==
    /\ pc = "validated"
    /\ validated = <<1, 2>>
    /\ accepted[1].via = "url"
    /\ accepted[2].via = "title"
    /\ \E n \in 1..Len(calls) : calls[n].op = "id" /\ calls[n].for = 2

Last(s) == s[Len(s)]

\* the candidate that the validator's last answered query was about has
\* just been accepted on the path via
JustAccepted(via) ==
    /\ accepted # << >>
    /\ calls # << >>
    /\ Last(calls).ok
    /\ Last(accepted).cand = Last(calls).for
    /\ Last(accepted).via = via

\* the title search of the candidate before vi has just been answered
JustSearched ==
    /\ pc = "v_url"
    /\ calls # << >>
    /\ Last(calls) = IndexCall("title", vi - 1, TRUE)

\* some result of the last query matches the title of the candidate before vi
SomeResultMatches ==
    \E i \in 1..Len(last_results) :
        _titles_match(papers[vi - 1].title, last_results[i].title)

\* C13: the direct-locator path accepts a candidate only when the identifier
\* query returned exactly one result and its title matches the candidate's.
C13_ExactlyOneResult ==
    JustAccepted("url") =>
        /\ Len(last_results) = 1
        /\ _titles_match(papers[Last(accepted).cand].title, last_results[1].title)

\* C13 without the count: the locator path accepts only on a non-empty
\* answer whose first result matches
C13_FirstResultMatches ==
    JustAccepted("url") =>
        /\ Len(last_results) >= 1
        /\ Last(accepted).result = last_results[1]
        /\ _titles_match(papers[Last(accepted).cand].title, last_results[1].title)

\* the title fallback took the earliest-ranked matching result
EarliestMatchUsed ==
    JustAccepted("title") =>
        \E i \in 1..Len(last_results) :
            /\ Last(accepted).result = last_results[i]
            /\ papers[Last(accepted).cand] =
                  EnrichByTitle(papers[Last(accepted).cand], last_results[i])
            /\ _titles_match(papers[Last(accepted).cand].title, last_results[i].title)
            /\ \A j \in 1..(i - 1) :
                  ~_titles_match(papers[Last(accepted).cand].title, last_results[j].title)

\* C14 (as stated): the title fallback requests at most 10 results, uses the
\* earliest-ranked result whose title matches, and drops the candidate when
\* no result matches.
C14_FirstMatchOrDropped ==
    /\ TitleMaxResults(impl) <= 10
    /\ EarliestMatchUsed
    /\ (JustSearched /\ ~SomeResultMatches) => (vi - 1) \notin Range(validated)

\* C14 (amended): as C14, except that CitationPipeline keeps a candidate
\* without a matching result when the operator picks a result at the prompt.
C14_FirstMatchOrDroppedUnlessPicked ==
    /\ TitleMaxResults(impl) <= 10
    /\ EarliestMatchUsed
    /\ (JustSearched /\ ~SomeResultMatches) =>
          \/ (vi - 1) \notin Range(validated)
          \/ impl = "CP" /\ JustAccepted("prompt")

\* C14 witness: both results of the title query match the candidate and
\* differ; the candidate carries the identifier of the first
C14_Witness ==
    /\ JustSearched
    /\ JustAccepted("title")
    /\ Len(last_results) = 2
    /\ last_results[1] # last_results[2]
    /\ _titles_match(papers[vi - 1].title, last_results[2].title)
    /\ papers[vi - 1].arxiv_id = Some(last_results[1].entry_id)

\* C14 witness of the drop: the title query was answered with results, none
\* matches, and the candidate is not in the output
C14_WitnessDropped ==
    /\ JustSearched
    /\ last_results # << >>
    /\ ~SomeResultMatches
    /\ (vi - 1) \notin Range(validated)

\* ------------------------------------------------------------------------
\* Expander: ReferenceBuilder.expand_by_key_authors (RB) and
\* CitationPipeline.expand_by_authors (CP).  Its argument validated_papers
\* is the validator's output, ValidatorOutput.
\* ------------------------------------------------------------------------
AuthorMaxResults == 20

PaperLabel == <<"P", "A", "P", "E", "R", ":">>

ReasonLabel == <<"R", "E", "A", "S", "O", "N", ":">>

\* RB: the dict built from a validated paper (initial_papers)
InitialDict(p) ==
    [title |-> p.title, authors |-> p.authors, url |-> p.arxiv_id,
     pdf_url |-> p.pdf_url, year |-> p.year, abstract |-> p.abstract,
     source |-> "initial", from_author |-> None, original_paper |-> None,
     selection_reason |-> None]

initial_papers == [k \in 1..Len(ValidatorOutput) |-> InitialDict(ValidatorOutput[k])]

\* RB: the dict built from a result of the search for author, started from
\* the validated paper whose title is original
AuthorDict(r, author, original) ==
    [title |-> r.title, authors |-> r.authors, url |-> Some(r.entry_id),
     pdf_url |-> Some(r.pdf_url), year |-> r.published,
     abstract |-> Some(r.summary), source |-> "author_search",
     from_author |-> Some(author), original_paper |-> Some(original),
     selection_reason |-> None]

\* CP: the Paper built from a result of an author search
AuthorPaper(r) ==
    [title |-> r.title, authors |-> r.authors, year |-> r.published,
     arxiv_id |-> Some(r.entry_id),
     arxiv_url |-> Some(AbsPrefix \o LastSegment(r.entry_id)),
     pdf_url |-> Some(r.pdf_url), abstract |-> Some(r.summary),
     relevance |-> None, source |-> "author_search"]

\* the canonical identifier of a pooled record: p['url'] in RB, p.arxiv_id
\* in CP
IdOf(im, p) == IF im = "RB" THEN p.url ELSE p.arxiv_id

\* key_authors = [a.strip() for a in ....content.strip().split('\n')]
KeyAuthorsOf(t) == StripAll(Split(Strip(t), NL))

\* the records one author search adds to author_papers
SearchRecords(im, results, author, original) ==
    [k \in 1..Len(results) |->
        IF im = "RB" THEN AuthorDict(results[k], author, original)
        ELSE AuthorPaper(results[k])]

\* ---- inputs of the expander ----------------------------------------------
MaxValidated == 2

MaxKeyAuthors == 2

MaxRankChunks == 2

MaxAuthorResults == 1

AuthorNames == { <<"p", " ", "q">> }

\* every response of the key-author call
KeyAuthorTexts == {Join(ns, <<NL>>) : ns \in SeqsUpTo(AuthorNames, MaxKeyAuthors)}

\* pieces of a ranking response: a PAPER line with or without its REASON
\* line, indented or not; RB is told to name the URL, CP the title
RankChunks(im) ==
    IF im = "RB"
    THEN { PaperLabel \o <<" ", "e", "/", "1", NL>> \o ReasonLabel \o <<" ", "w">>,
           <<" ">> \o PaperLabel \o <<" ", "e", "/", "2", NL>> \o ReasonLabel \o <<"v">>,
           PaperLabel \o <<" ", "e", "/", "9", NL>> \o ReasonLabel \o <<" ", "w">>,
           PaperLabel \o <<" ", "e", "/", "1">>,
           ReasonLabel \o <<" ", "u">> }
    ELSE { PaperLabel \o <<" ", "a", NL>> \o ReasonLabel \o <<" ", "w">>,
           <<" ">> \o PaperLabel \o <<" ", "a", NL>> \o ReasonLabel \o <<"v">>,
           PaperLabel \o <<" ", "z", NL>> \o ReasonLabel \o <<" ", "w">>,
           PaperLabel \o <<" ", "A", "!">>,
           ReasonLabel \o <<" ", "u">> }

\* every response of the ranking call
RankTexts(im) == {Join(cs, <<NL>>) : cs \in SeqsUpTo(RankChunks(im), MaxRankChunks)}

\* ---- the author loops ----------------------------------------------------
\* CP: the key-author call comes first, once, whatever validated_papers is;
\* RB: initial_papers is built and the loop over validated_papers starts
ExpandBegin ==
    /\ pc = "e_begin"
    /\ IF impl = "RB"
       THEN /\ pc' = "e_paper"
            /\ ei' = 1
            /\ UNCHANGED <<key_authors, ai, author_papers, calls>>
       ELSE \E t \in KeyAuthorTexts :
            /\ calls' = Append(calls, GptCall("key_authors", 0))
            /\ key_authors' = KeyAuthorsOf(t)
            /\ author_papers' = << >>
            /\ ai' = 1
            /\ pc' = "e_search"
            /\ UNCHANGED ei
    /\ UNCHANGED <<impl, restVars, err, parserVars, validatorVars, found, all_papers,
                   unique_papers, selections, final_papers>>

\* RB: one iteration of "for paper in validated_papers" up to the author
\* loop: the key-author call, and author_papers = []
ExpandPaper ==
    /\ pc = "e_paper"
    /\ impl = "RB"
    /\ ei <= Len(ValidatorOutput)
    /\ \E t \in KeyAuthorTexts :
       /\ calls' = Append(calls, GptCall("key_authors", ei))
       /\ key_authors' = KeyAuthorsOf(t)
    /\ author_papers' = << >>
    /\ ai' = 1
    /\ pc' = "e_search"
    /\ UNCHANGED <<impl, restVars, err, parserVars, validatorVars, ei, found, all_papers,
                   unique_papers, selections, final_papers>>

\* mutant: the author search without its try/except
AuthorSearchUncaught(im) == FALSE

\* "except Exception as e:" around the author search (RB 225, CP 337)
AuthorSearchCatches(im) == TRUE

\* mutant: RB leaves for the ranking after the author loop of one record
AfterAuthorsRankEarly(im) == IF im = "RB" THEN "e_rank" ELSE "e_filter"

\* where the author loop's end leads: RB goes to the next validated paper,
\* CP to the relevance filter
AfterAuthors(im) == IF im = "RB" THEN "e_paper" ELSE "e_filter"

\* one iteration of "for author in key_authors"
AuthorSearch ==
    /\ pc = "e_search"
    /\ ai <= Len(key_authors)
    /\ \E out \in IndexOutcomes(Min(AuthorMaxResults, MaxAuthorResults)) :
       /\ calls' = Append(calls, IndexCall("author", ai, out.ok))
       /\ IF ~out.ok /\ ~AuthorSearchCatches(impl)
          THEN /\ pc' = "raised"
               /\ err' = "Exception"
               /\ UNCHANGED <<ei, ai, author_papers, found>>
          ELSE /\ author_papers' =
                     author_papers \o
                     SearchRecords(impl, out.results, key_authors[ai],
                                   IF impl = "RB" THEN ValidatorOutput[ei].title ELSE << >>)
               /\ found' = found \cup {out.results[k].entry_id : k \in 1..Len(out.results)}
               /\ ai' = ai + 1
               /\ pc' = IF ai = Len(key_authors) THEN AfterAuthors(impl) ELSE "e_search"
               /\ ei' = IF ai = Len(key_authors) /\ impl = "RB" THEN ei + 1 ELSE ei
               /\ UNCHANGED err
    /\ UNCHANGED <<impl, restVars, parserVars, validatorVars, key_authors, all_papers,
                   unique_papers, selections, final_papers>>

\* ---- merge and deduplication ---------------------------------------------
\* index of the first / last record of ps with identifier id
FirstIndex(im, ps, id) ==
    CHOOSE i \in 1..Len(ps) :
        IdOf(im, ps[i]) = id /\ \A j \in 1..(i - 1) : IdOf(im, ps[j]) # id

LastIndex(im, ps, id) ==
    CHOOSE i \in 1..Len(ps) :
        IdOf(im, ps[i]) = id /\ \A j \in (i + 1)..Len(ps) : IdOf(im, ps[j]) # id

\* the positions of ps that hold the first occurrence of their identifier
FirstPositions(im, ps) ==
    {i \in 1..Len(ps) : \A j \in 1..(i - 1) : IdOf(im, ps[j]) # IdOf(im, ps[i])}

\* the k-th smallest element of a set of numbers
RECURSIVE Nth(_, _)
Nth(S, k) ==
    LET m == CHOOSE x \in S : \A y \in S : x <= y
    IN  IF k = 1 THEN m ELSE Nth(S \ {m}, k - 1)

\* RB: {p['url']: p for p in all_papers}.values(): a key keeps the place of
\* its first occurrence and the value of its last
DictValues(im, ps) ==
    [k \in 1..Cardinality(FirstPositions(im, ps)) |->
        ps[LastIndex(im, ps, IdOf(im, ps[Nth(FirstPositions(im, ps), k)]))]]

\* CP: the seen-set loop: the first occurrence of each arxiv_id, in order
SeenFilter(im, ps) ==
    [k \in 1..Cardinality(FirstPositions(im, ps)) |-> ps[Nth(FirstPositions(im, ps), k)]]

\* ---- the ranking response --------------------------------------------------
\* RB strips each line of the ranking response before it tests the label,
\* CP does not
RankLine(im, line) == IF im = "RB" THEN Strip(line) ELSE line

RECURSIVE ParseSelections(_, _, _, _)
\* the loop over the lines of the ranking response: acc holds the closed
\* PAPER blocks, cur the open one; key is the text after "PAPER:"
ParseSelections(im, lines, cur, acc) ==
    IF lines = << >>
    THEN IF Truthy(cur.key) THEN Append(acc, cur) ELSE acc
    ELSE LET line == RankLine(im, Head(lines)) IN
         IF StartsWith(line, PaperLabel)
         THEN ParseSelections(im, Tail(lines),
                  [key |-> Some(Strip(Drop(line, 6))), reason |-> None],
                  IF Truthy(cur.key) THEN Append(acc, cur) ELSE acc)
         ELSE IF StartsWith(line, ReasonLabel)
         THEN ParseSelections(im, Tail(lines),
                  [cur EXCEPT !.reason = Some(Strip(Drop(line, 7)))], acc)
         ELSE ParseSelections(im, Tail(lines), cur, acc)

SelectionsOf(im, t) ==
    ParseSelections(im, ResponseLines(t), [key |-> None, reason |-> None], << >>)

\* the ranking response names the pooled record p: by URL in RB
\* (p['url'] == selection['url']), by title in CP (_titles_match)
Names(im, sel, p) ==
    IF im = "RB" THEN p.url = sel.key ELSE _titles_match(p.title, sel.key[1])

\* next((p for p in pool if ...), None): index of the first pooled record
\* the selection names, 0 if none
Lookup(im, sel, pool) ==
    IF \E i \in 1..Len(pool) : Names(im, sel, pool[i])
    THEN CHOOSE i \in 1..Len(pool) :
            Names(im, sel, pool[i]) /\ \A j \in 1..(i - 1) : ~Names(im, sel, pool[j])
    ELSE 0

\* the selections that name a pooled record, in order
Hits(im, sels, pool) == SelectSeq(sels, LAMBDA sel : Lookup(im, sel, pool) > 0)

\* RB: selection['reason'] raises KeyError for a selected paper whose block
\* has no REASON line
ReasonMissing(im, sels, pool) ==
    im = "RB" /\ \E k \in 1..Len(Hits(im, sels, pool)) : Hits(im, sels, pool)[k].reason = None

\* the note the record at pool index i ends with: the paper is one object,
\* so every place it is listed shows the reason assigned last
LastReason(im, sels, pool, i) ==
    LET hs == Hits(im, sels, pool)
        n == CHOOSE k \in 1..Len(hs) :
                /\ Lookup(im, hs[k], pool) = i
                /\ \A j \in (k + 1)..Len(hs) : Lookup(im, hs[j], pool) # i
    IN  hs[n].reason

\* mutant: the whole pool is returned, selected or not
SelectedWholePool(im, sels, pool) == pool

\* mutant: a selection that names no pooled record yields a record made
\* from the name
SelectedFabricating(im, sels, pool) ==
    [k \in 1..Len(sels) |->
        LET i == Lookup(im, sels[k], pool) IN
        IF i > 0
        THEN pool[i]
        ELSE IF im = "RB"
             THEN [pool[1] EXCEPT !.url = sels[k].key]
             ELSE [pool[1] EXCEPT !.arxiv_id = sels[k].key, !.title = sels[k].key[1]]]

\* final_papers (RB) / relevant_papers (CP): one entry per selection that
\* names a pooled record
Selected(im, sels, pool) ==
    LET hs == Hits(im, sels, pool) IN
    [k \in 1..Len(hs) |->
        LET i == Lookup(im, hs[k], pool) IN
        IF im = "RB"
        THEN [pool[i] EXCEPT !.selection_reason = LastReason(im, sels, pool, i)]
        ELSE [pool[i] EXCEPT !.relevance = LastReason(im, sels, pool, i)]]

\* RB: "all_papers = initial_papers + author_papers" and the dict; the name
\* author_papers is bound only once the loop over validated_papers has run
ExpandMerge ==
    /\ pc = "e_paper"
    /\ impl = "RB"
    /\ ei > Len(ValidatorOutput)
    /\ IF Len(ValidatorOutput) = 0
       THEN /\ pc' = "raised"
            /\ err' = "UnboundLocalError"
            /\ UNCHANGED <<all_papers, unique_papers, final_papers>>
       ELSE /\ all_papers' = initial_papers \o author_papers
            /\ unique_papers' = DictValues(impl, initial_papers \o author_papers)
            /\ IF Len(DictValues(impl, initial_papers \o author_papers)) > 0
               THEN pc' = "e_rank" /\ UNCHANGED final_papers
               ELSE pc' = "expanded" /\ final_papers' = << >>
            /\ UNCHANGED err
    /\ UNCHANGED <<impl, restVars, parserVars, validatorVars, calls, ei, key_authors, ai,
                   author_papers, found, selections>>

\* RB: the ranking call, the parse of its response, the selection loop,
\* save_phase_results and return
ExpandRank ==
    /\ pc = "e_rank"
    /\ \E t \in RankTexts(impl) :
       LET sels == SelectionsOf(impl, t) IN
       /\ calls' = Append(calls, GptCall("rank", 0))
       /\ selections' = sels
       /\ IF ReasonMissing(impl, sels, unique_papers)
          THEN /\ pc' = "raised"
               /\ err' = "KeyError"
               /\ UNCHANGED final_papers
          ELSE /\ final_papers' = Selected(impl, sels, unique_papers)
               /\ pc' = "expanded"
               /\ UNCHANGED err
    /\ UNCHANGED <<impl, restVars, parserVars, validatorVars, ei, key_authors, ai,
                   author_papers, found, all_papers, unique_papers>>

\* CP: "if author_papers:" the ranking call, the parse of its response,
\* "all_papers = validated_papers + relevant_papers", the seen-set loop and
\* return; otherwise "return validated_papers"
ExpandFilter ==
    /\ pc = "e_filter"
    /\ IF author_papers = << >>
       THEN /\ final_papers' = ValidatorOutput
            /\ UNCHANGED <<calls, selections, all_papers, unique_papers>>
       ELSE \E t \in RankTexts(impl) :
            LET sels == SelectionsOf(impl, t)
                merged == ValidatorOutput \o Selected(impl, sels, author_papers)
            IN  /\ calls' = Append(calls, GptCall("rank", 0))
                /\ selections' = sels
                /\ all_papers' = merged
                /\ unique_papers' = SeenFilter(impl, merged)
                /\ final_papers' = SeenFilter(impl, merged)
    /\ pc' = "expanded"
    /\ UNCHANGED <<impl, restVars, err, parserVars, validatorVars, ei, key_authors, ai,
                   author_papers, found>>

NextExpand ==
    ExpandBegin \/ ExpandPaper \/ AuthorSearch \/ ExpandMerge \/ ExpandRank \/ ExpandFilter

\* the records a validator can hand over: a candidate enriched from each
\* result whose title matches its own and, in CP, a candidate enriched
\* from a result the operator picked
ValidatedInputs(im) ==
    LET plain(t) == MakeRecord(im, [title |-> Some(t), authors |-> Some(<< <<"z">> >>),
                                   year |-> Some(7), arxiv_url |-> None,
                                   relevance |-> None])
    IN  {EnrichByTitle(plain(<<"A", ".">>), r) : r \in Catalogue}
        \cup (IF im = "CP"
              THEN {EnrichByTitle(plain(<<"c">>), r) :
                       r \in {x \in Catalogue : x.published # None}}
              ELSE {})

InitExpand ==
    /\ impl \in Impls
    /\ pc = "e_begin"
    /\ err = "none"
    /\ IdleRest
    /\ IdleParser
    /\ IdleExpander
    /\ papers \in SeqsUpTo(ValidatedInputs(impl), MaxValidated)
    /\ vi = Len(papers) + 1
    /\ validated = [k \in 1..Len(papers) |-> k]
    /\ last_results = << >>
    /\ accepted = << >>
    /\ calls = << >>

SpecExpand == InitExpand /\ [][NextExpand]_vars

\* ---- claims about the expander ---------------------------------------------
\* C2: the sequence the expander returns holds no two records with the
\* same canonical identifier.
C2_NoDuplicateIds ==
    pc = "expanded" =>
        \A j, k \in 1..Len(final_papers) :
            j # k => IdOf(impl, final_papers[j]) # IdOf(impl, final_papers[k])

\* C3: an empty validated sequence makes the expander return the empty
\* sequence without raising and without any generative-service call or
\* index query.
C3_EmptyInputClosure ==
    ValidatorOutput = << >> =>
        /\ pc # "raised"
        /\ calls = << >>
        /\ pc = "expanded" => final_papers = << >>

\* C3, the validator's half: an empty candidate sequence is returned empty
\* and no index query is issued.
C3_ValidatorEmpty ==
    papers = << >> => calls = << >> /\ validated = << >> /\ pc # "raised"

\* C4: after the merge each canonical identifier is kept once, and the
\* record kept is the first occurrence in merge order, fields and
\* provenance included.
C4_FirstOccurrenceWins ==
    (pc \in {"e_rank", "expanded"} /\ all_papers # << >>) =>
        /\ \A j, k \in 1..Len(unique_papers) :
              j # k => IdOf(impl, unique_papers[j]) # IdOf(impl, unique_papers[k])
        /\ \A i \in 1..Len(all_papers) :
              \E k \in 1..Len(unique_papers) :
                  IdOf(impl, unique_papers[k]) = IdOf(impl, all_papers[i])
        /\ \A k \in 1..Len(unique_papers) :
              unique_papers[k] =
                  all_papers[FirstIndex(impl, all_papers, IdOf(impl, unique_papers[k]))]

\* C4 restricted to CitationPipeline.expand_by_authors
C4_FirstOccurrenceWinsCP == impl = "CP" => C4_FirstOccurrenceWins

\* the pool the ranking call is given: unique_papers in RB, author_papers
\* in CP
RankingPool == IF impl = "RB" THEN unique_papers ELSE author_papers

\* the ranking call is about to be issued
AtRanking ==
    \/ impl = "RB" /\ pc = "e_rank"
    \/ impl = "CP" /\ pc = "e_filter" /\ author_papers # << >>

\* C5: the pool handed to the ranking step holds every record returned by
\* every author search of every validated record, up to deduplication.
C5_PoolComplete ==
    AtRanking =>
        \A id \in found :
            \E i \in 1..Len(RankingPool) : IdOf(impl, RankingPool[i]) = Some(id)

\* C5 restricted to CitationPipeline.expand_by_authors
C5_PoolCompleteCP == impl = "CP" => C5_PoolComplete

\* the ranking response names the record p
NamedByRanking(p) == \E k \in 1..Len(selections) : Names(impl, selections[k], p)

\* C10 (as stated): every record of the expander's output, validated or
\* author-expansion, was named by the ranking response.
C10_OnlySelected ==
    pc = "expanded" =>
        \A k \in 1..Len(final_papers) : NamedByRanking(final_papers[k])

\* C10 (amended): every record of the output was named by the ranking
\* response, except that CitationPipeline passes the validated records
\* through without ranking them.
C10_OnlySelectedOrValidatedCP ==
    pc = "expanded" =>
        \A k \in 1..Len(final_papers) :
            \/ NamedByRanking(final_papers[k])
            \/ impl = "CP" /\ final_papers[k] \in Range(ValidatorOutput)

\* C10 witness: the ranking response named one of two pooled records; the
\* output is that record alone, and a validated record that was not named
\* is absent (RB)
C10_Witness ==
    /\ pc = "expanded"
    /\ impl = "RB"
    /\ Len(unique_papers) = 2
    /\ Len(final_papers) = 1
    /\ final_papers[1].source = "author_search"
    /\ \E i \in 1..2 : unique_papers[i].source = "initial" /\ ~NamedByRanking(unique_papers[i])

\* ---- claims about single lines of the response ---------------------------
\* the line the parse loop is at, stripped
CurrentLine == Strip(ResponseLines(text)[pos])

\* the loop is at a "Year:" line whose content int() rejects
AtBadYearLine ==
    /\ pc = "parse"
    /\ pos <= Len(ResponseLines(text))
    /\ StartsWith(CurrentLine, YearLabel)
    /\ ~IsInt(Strip(Drop(CurrentLine, 5)))

\* the response is one block: a Title line with a title, then lines that
\* are neither blank nor Title lines, no Year line among them an integer,
\* and at least one Year line
OneBlockBadYear ==
    LET ls == StripAll(ResponseLines(text)) IN
    /\ Len(ls) >= 2
    /\ StartsWith(ls[1], TitleLabel)
    /\ Strip(Drop(ls[1], 6)) # << >>
    /\ \A i \in 2..Len(ls) :
          /\ ~ClosesBlock(ls[i])
          /\ StartsWith(ls[i], YearLabel) => ~IsInt(Strip(Drop(ls[i], 5)))
    /\ \E i \in 2..Len(ls) : StartsWith(ls[i], YearLabel)

\* C19: a "Year:" line whose content is not an integer is passed over: it
\* changes no field, raises nothing, and the record of its block is emitted
\* with the year unset and the other fields as read.
C19_BadYearIgnored ==
    /\ [][AtBadYearLine =>
            /\ current_paper' = current_paper
            /\ suggestions' = suggestions
            /\ pos' = pos + 1
            /\ pc' = "parse"
            /\ err' = err]_vars
    /\ []((pc = "parsed" /\ OneBlockBadYear) =>
            /\ Len(suggestions) = 1
            /\ suggestions[1].year = None
            /\ suggestions[1].title = Strip(Drop(Strip(ResponseLines(text)[1]), 6)))

\* C19 witness: a block with title, authors and a Year line that is not an
\* integer was parsed into one record with its authors and no year
C19_Witness ==
    /\ pc = "parsed"
    /\ OneBlockBadYear
    /\ Len(suggestions) = 1
    /\ suggestions[1].authors # << >>
    /\ suggestions[1].year = None

\* the loop is at a Title line
AtTitleLine ==
    /\ pc = "parse"
    /\ pos <= Len(ResponseLines(text))
    /\ StartsWith(CurrentLine, TitleLabel)

\* the lines of the response before line i that belong to the block of
\* line i: those after the last Title line before i
RECURSIVE BlockStart(_, _)
BlockStart(ls, i) ==
    IF i = 0 THEN 0
    ELSE IF StartsWith(ls[i], TitleLabel) THEN i
    ELSE BlockStart(ls, i - 1)

\* the record carries a field only if a line with that field's label stands
\* in the response after some Title line: for a response whose field lines
\* all stand before its first Title line, every record has no field but
\* the title
FieldsOnlyBeforeTitles ==
    LET ls == StripAll(ResponseLines(text)) IN
    \A i \in 1..Len(ls) :
        StartsWith(ls[i], TitleLabel) \/
        ls[i] = << >> \/
        BlockStart(ls, i) = 0 \/
        (\E j \in BlockStart(ls, i)..(i - 1) : ls[j] = << >>)

\* C20: every record the parser emits has a non-empty title, and field
\* lines before any Title line, or after a blank line and before the next
\* Title line, make no record and are attached to no later record.
C20_TitledRecordsOnly ==
    /\ [](\A k \in 1..Len(suggestions) : suggestions[k].title # << >>)
    /\ [][suggestions' # suggestions =>
            /\ Truthy(current_paper.title)
            /\ Len(suggestions') = Len(suggestions) + 1
            /\ suggestions'[Len(suggestions')].title = current_paper.title[1]]_vars
    /\ [][AtTitleLine =>
            (pc' = "parse" =>
                current_paper' =
                    [EmptyDict EXCEPT !.title = Some(Strip(Drop(CurrentLine, 6)))])]_vars
    /\ []((pc = "parsed" /\ FieldsOnlyBeforeTitles) =>
            \A k \in 1..Len(suggestions) :
                /\ suggestions[k].year = None
                /\ suggestions[k].arxiv_url = None
                /\ suggestions[k].authors = << >>)

\* C20 witness: field lines stood before the Title line and after the blank
\* line; the one record emitted carries none of them
C20_Witness ==
    /\ pc = "parsed"
    /\ impl = "RB"
    /\ FieldsOnlyBeforeTitles
    /\ Len(suggestions) = 1
    /\ suggestions[1].year = None
    /\ \E i \in 1..Len(ResponseLines(text)) :
          StartsWith(Strip(ResponseLines(text)[i]), YearLabel)
             /\ IsInt(Strip(Drop(Strip(ResponseLines(text)[i]), 5)))

\* ---- failure of an author search ------------------------------------------
\* the positions of calls that hold an author search
AuthorCalls == {n \in 1..Len(calls) : calls[n].svc = "index" /\ calls[n].op = "author"}

\* the positions of calls that hold a key-author call
KeyAuthorCalls == {n \in 1..Len(calls) : calls[n].svc = "gpt" /\ calls[n].op = "key_authors"}

\* this step is an author search that the index failed
AuthorSearchFails ==
    /\ pc = "e_search"
    /\ Len(calls') = Len(calls) + 1
    /\ ~calls'[Len(calls')].ok

\* this step leaves author_papers as it was and moves on to the next key
\* author or, after the last one, to the next validated record (RB) or to
\* the relevance filter (CP)
ExpansionGoesOn ==
    /\ author_papers' = author_papers
    /\ err' = "none"
    /\ ai' = ai + 1
    /\ IF ai < Len(key_authors)
       THEN pc' = "e_search" /\ ei' = ei
       ELSE IF impl = "RB"
       THEN pc' = "e_paper" /\ ei' = ei + 1
       ELSE pc' = "e_filter"

\* once the author loops are over, one search was issued for every key
\* author of every key-author call
AllAuthorSearchesIssued ==
    /\ (impl = "CP" /\ pc \in {"e_filter", "expanded"}) =>
          /\ Cardinality(KeyAuthorCalls) = 1
          /\ Cardinality(AuthorCalls) = Len(key_authors)
    /\ (impl = "RB" /\ pc \in {"e_rank", "expanded"}) =>
          /\ Cardinality(KeyAuthorCalls) = Len(ValidatorOutput)
          /\ \A k \in KeyAuthorCalls : calls[k].for = Cardinality({j \in KeyAuthorCalls : j <= k})
          /\ \E k \in KeyAuthorCalls :
                /\ \A j \in KeyAuthorCalls : j <= k
                /\ Cardinality({n \in AuthorCalls : n > k}) = Len(key_authors)

\* C18: a failing index query for one key author does not abort expansion:
\* it counts as an empty result for that author, and the searches for the
\* remaining key authors and validated records are still issued.
C18_AuthorFailureIsolated ==
    /\ [][AuthorSearchFails => ExpansionGoesOn]_vars
    /\ [](err # "Exception")
    /\ []AllAuthorSearchesIssued

\* C18 witness: an author search failed, a later one for another validated
\* record was answered, and its result is in the output
C18_Witness ==
    /\ pc = "expanded"
    /\ final_papers # << >>
    /\ \E n, m \in AuthorCalls :
          /\ n < m
          /\ ~calls[n].ok
          /\ calls[m].ok
          /\ \E k \in KeyAuthorCalls : n < k /\ k < m

\* ------------------------------------------------------------------------
\* Formatter: ReferenceBuilder.generate_bibtex (RB) and
\* CitationPipeline.generate_bibtex (CP)
\* ------------------------------------------------------------------------
RECURSIVE TokensFrom(_, _, _)
TokensFrom(s, cur, acc) ==
    IF s = << >> THEN (IF cur = << >> THEN acc ELSE Append(acc, cur))
    ELSE IF Head(s) \in Whitespace
    THEN TokensFrom(Tail(s), << >>, IF cur = << >> THEN acc ELSE Append(acc, cur))
    ELSE TokensFrom(Tail(s), Append(cur, Head(s)), acc)

\* s.split(): the runs of non-whitespace characters
Tokens(s) == TokensFrom(s, << >>, << >>)

Unknown == <<"U", "n", "k", "n", "o", "w", "n">>

NoneText == <<"N", "o", "n", "e">>

\* "paper['authors'][0].split()[-1]" raises IndexError for a first author
\* that holds no token
FirstAuthorRaises(paper) ==
    paper.authors # << >> /\ Tokens(paper.authors[1]) = << >>

\* mutant: the first token of the first author
first_authorGivenName(paper) ==
    IF paper.authors # << >> THEN Head(Tokens(paper.authors[1])) ELSE Unknown

\* first_author = paper['authors'][0].split()[-1] if paper['authors'] else 'Unknown'
first_author(paper) ==
    IF paper.authors # << >>
    THEN Tokens(paper.authors[1])[Len(Tokens(paper.authors[1]))]
    ELSE Unknown

\* the text f"{year}" puts for the year: RB reads paper.get('year', '') and
\* the key 'year' is always there, so None is rendered; CP reads
\* paper.year or ''
YearText(im, paper) ==
    IF paper.year = None
    THEN (IF im = "RB" THEN NoneText ELSE << >>)
    ELSE IF im = "CP" /\ paper.year[1] = 0 THEN << >>
    ELSE IntToStr(paper.year[1])

\* citation_key = f"{first_author}{year}"
citation_key(im, paper) == first_author(paper) \o YearText(im, paper)

RECURSIVE Replace(_, _, _)
\* s.replace(c, r) for a one-character c
Replace(s, c, r) ==
    IF s = << >> THEN << >>
    ELSE (IF Head(s) = c THEN r ELSE <<Head(s)>>) \o Replace(Tail(s), c, r)

\* mutant: the title is put into the entry as it is
CleanTitleVerbatim(title) == title

\* title.replace('\n', ' ').replace('{', '\\{').replace('}', '\\}')
CleanTitle(title) ==
    Replace(Replace(Replace(title, NL, <<" ">>), "{", <<"\\", "{">>), "}", <<"\\", "}">>)

\* the arXiv identifier of the entry: paper['url'].split('/')[-1] in RB,
\* paper.arxiv_id.split('/')[-1] if paper.arxiv_id else '' in CP
EprintOf(im, paper) ==
    IF im = "RB" THEN LastSegment(paper.url[1])
    ELSE IF Truthy(paper.arxiv_id) THEN LastSegment(paper.arxiv_id[1]) ELSE << >>

\* the url field: paper['url'] in RB, paper.arxiv_url or '' in CP
UrlOf(im, paper) ==
    IF im = "RB" THEN paper.url[1]
    ELSE IF Truthy(paper.arxiv_url) THEN paper.arxiv_url[1] ELSE << >>

EntryHead == <<"@", "a", "r", "t", "i", "c", "l", "e", "{">>

TitleField == <<" ", " ", "t", "i", "t", "l", "e", "=", "{">>

AuthorField == <<" ", " ", "a", "u", "t", "h", "o", "r", "=", "{">>

YearField == <<" ", " ", "y", "e", "a", "r", "=", "{">>

EprintField == <<" ", " ", "e", "p", "r", "i", "n", "t", "=", "{">>

FixedFields == <<" ", " ", "a", "r", "c", "h", "i", "v", "e", "P", "r", "e", "f", "i",
      "x", "=", "{", "a", "r", "X", "i", "v", "}", ",", NL, " ", " ",
      "p", "r", "i", "m", "a", "r", "y", "C", "l", "a", "s", "s", "=",
      "{", "c", "s", ".", "C", "R", "}", ",", NL>>

UrlField == <<" ", " ", "u", "r", "l", "=", "{">>

EntryTail == <<"}", NL, "}">>

AndSep == <<" ", "a", "n", "d", " ">>

\* the f-string entry
Entry(im, paper) ==
    EntryHead \o citation_key(im, paper) \o <<",", NL>>
    \o TitleField \o CleanTitle(paper.title) \o <<"}", ",", NL>>
    \o AuthorField \o Join(paper.authors, AndSep) \o <<"}", ",", NL>>
    \o YearField \o YearText(im, paper) \o <<"}", ",", NL>>
    \o EprintField \o EprintOf(im, paper) \o <<"}", ",", NL>>
    \o FixedFields
    \o UrlField \o UrlOf(im, paper) \o EntryTail

\* one iteration of "for paper in papers"
GenerateEntry ==
    /\ pc = "b_loop"
    /\ bi <= Len(bib_papers)
    /\ IF FirstAuthorRaises(bib_papers[bi])
       THEN /\ pc' = "raised"
            /\ err' = "IndexError"
            /\ UNCHANGED <<bi, entries>>
       ELSE /\ entries' = Append(entries,
                  [key |-> citation_key(impl, bib_papers[bi]),
                   entry |-> Entry(impl, bib_papers[bi])])
            /\ bi' = bi + 1
            /\ UNCHANGED <<pc, err>>
    /\ UNCHANGED <<impl, parserVars, validatorVars, calls, expanderVars,
                   titleVars, bib_papers, mainVars>>

\* return entries
GenerateEnd ==
    /\ pc = "b_loop"
    /\ bi > Len(bib_papers)
    /\ pc' = "b_done"
    /\ UNCHANGED <<impl, err, parserVars, validatorVars, calls, expanderVars, restVars>>

NextBibtex == GenerateEntry \/ GenerateEnd

\* ---- inputs of the formatter ---------------------------------------------
MaxBibPapers == 2

BibTitles ==
    { <<"a">>, <<"{", "a", "}">>, <<"\\">>, <<"\\", "{">>, <<"a", NL, "b">> }

\* author lists as the index gives them
BibAuthors == { << >>, << <<"p", " ", "q">>, <<"r">> >>, << <<"q">> >> }

BibYears == { None, Some(2017) }

\* the records generate_bibtex is given: dicts with the keys it reads in
\* RB, Paper objects in CP
BibPapers(im) ==
    IF im = "RB"
    THEN {[title |-> t, authors |-> a, year |-> y, url |-> Some(<<"e", "/", "1">>)] :
             t \in BibTitles, a \in BibAuthors, y \in BibYears}
    ELSE {[title |-> t, authors |-> a, year |-> y,
           arxiv_id |-> Some(<<"e", "/", "1">>),
           arxiv_url |-> Some(AbsPrefix \o <<"1">>)] :
             t \in BibTitles, a \in BibAuthors, y \in BibYears}

InitBibtex ==
    /\ impl \in Impls
    /\ pc = "b_loop"
    /\ err = "none"
    /\ IdleParser
    /\ IdleValidator
    /\ IdleExpander
    /\ IdleTitles
    /\ IdleMain
    /\ calls = << >>
    /\ bib_papers \in SeqsUpTo(BibPapers(impl), MaxBibPapers)
    /\ bi = 1
    /\ entries = << >>

SpecBibtex == InitBibtex /\ [][NextBibtex]_vars

\* ---- claims about the formatter ------------------------------------------
\* f is the last whitespace-separated token of the name s
IsLastToken(f, s) ==
    LET r == RStrip(s) IN
    /\ f # << >>
    /\ Len(f) <= Len(r)
    /\ SubSeq(r, Len(r) - Len(f) + 1, Len(r)) = f
    /\ \A i \in 1..Len(f) : f[i] \notin Whitespace
    /\ Len(f) < Len(r) => r[Len(r) - Len(f)] \in Whitespace

\* f is the family name the key of paper starts from
IsFamilyName(f, paper) ==
    IF paper.authors = << >> THEN f = Unknown ELSE IsLastToken(f, paper.authors[1])

\* key is a family name of paper followed by the decimal year of paper; for
\* a paper without a year, key starts with a family name of paper
KeyOf(key, paper) ==
    IF paper.year = None
    THEN \E n \in 0..Len(key) : IsFamilyName(SubSeq(key, 1, n), paper)
    ELSE LET y == IntToStr(paper.year[1]) IN
         /\ Len(key) >= Len(y)
         /\ SubSeq(key, Len(key) - Len(y) + 1, Len(key)) = y
         /\ IsFamilyName(SubSeq(key, 1, Len(key) - Len(y)), paper)

\* C15: each record gets the key made of the last whitespace-separated
\* token of its first author ('Unknown' for an empty author list) followed
\* by its year, and records with the same family name and year get the
\* identical key: no collision resolution.
C15_KeyFormNoCollisionResolution ==
    pc = "b_done" =>
        /\ Len(entries) = Len(bib_papers)
        /\ \A k \in 1..Len(entries) : KeyOf(entries[k].key, bib_papers[k])
        /\ \A j, k \in 1..Len(entries) :
              (/\ bib_papers[j].year = bib_papers[k].year
               /\ \E n \in 0..Len(entries[j].key) :
                     /\ IsFamilyName(SubSeq(entries[j].key, 1, n), bib_papers[j])
                     /\ IsFamilyName(SubSeq(entries[j].key, 1, n), bib_papers[k]))
              => entries[j].key = entries[k].key

\* C15 witness: two records with different author lists and titles, the
\* same family name and the same year, came out with one key
C15_Witness ==
    /\ pc = "b_done"
    /\ Len(entries) = 2
    /\ bib_papers[1].authors # bib_papers[2].authors
    /\ bib_papers[1].authors # << >>
    /\ bib_papers[2].authors # << >>
    /\ bib_papers[1].title # bib_papers[2].title
    /\ bib_papers[1].year # None
    /\ entries[1].key = entries[2].key

RECURSIVE Depth(_, _)
\* the brace depth at the end of s for a reader that takes a backslash
\* with the character after it as one escaped character; -1 once a closing
\* brace has no opening one
Depth(s, d) ==
    IF d < 0 THEN -1
    ELSE IF s = << >> THEN d
    ELSE IF Head(s) = "\\" THEN Depth(Drop(s, 2), d)
    ELSE IF Head(s) = "{" THEN Depth(Tail(s), d + 1)
    ELSE IF Head(s) = "}" THEN Depth(Tail(s), d - 1)
    ELSE Depth(Tail(s), d)

\* the second line of an entry, which holds its title field
TitleLine(entry) ==
    LET nls == {i \in 1..Len(entry) : entry[i] = NL}
        p1 == CHOOSE i \in nls : \A j \in nls : i <= j
        p2 == CHOOSE i \in nls \ {p1} : \A j \in nls \ {p1} : i <= j
    IN  SubSeq(entry, p1 + 1, p2 - 1)

RECURSIVE Escaped(_)
\* title with its newlines made spaces and each brace and each backslash
\* preceded by a backslash
Escaped(title) ==
    IF title = << >> THEN << >>
    ELSE (IF Head(title) \in {"{", "}", "\\"} THEN <<"\\", Head(title)>>
          ELSE IF Head(title) = NL THEN <<" ">>
          ELSE <<Head(title)>>)
         \o Escaped(Tail(title))

\* C16: in every entry each brace and each backslash of the title is
\* escaped, and the entry stays brace-balanced.
C16_TitleEscaped ==
    \A k \in 1..Len(entries) :
        /\ Contains(entries[k].entry,
                    TitleField \o Escaped(bib_papers[k].title) \o <<"}", ",", NL>>)
        /\ Depth(TitleLine(entries[k].entry), 0) = 0

\* C16 for titles without a backslash
C16_TitleEscapedUnlessBackslash ==
    \A k \in 1..Len(entries) :
        "\\" \notin Range(bib_papers[k].title) =>
            /\ Contains(entries[k].entry,
                        TitleField \o Escaped(bib_papers[k].title) \o <<"}", ",", NL>>)
            /\ Depth(TitleLine(entries[k].entry), 0) = 0

\* ------------------------------------------------------------------------
\* Entry points: get_citations (src/main.py), main of reference_builder.py
\* and main of citation_pipeline.py.  Each runs the phases above in turn.
\* ------------------------------------------------------------------------
EntryPoints == {"api", "rb_main", "cp_main"}

\* the class an entry point builds its pipeline from
ImplOf(ep) == IF ep = "cp_main" THEN "CP" ELSE "RB"

\* the entry point tests the result of a phase before it goes on:
\* "if not suggested_papers", "if not validated_papers", "if not final_papers"
ChecksSuggestions(ep) == ep = "cp_main"

ChecksValidated(ep) == ep \in {"rb_main", "cp_main"}

ChecksFinal(ep) == ep = "rb_main"

\* the responses of the suggestion call: no record; one record that the
\* index knows; one record, without authors, that the index does not know;
\* two records that the index knows
MainTexts ==
    { << >>,
      TitleLabel \o <<" ", "A", ".", NL>> \o AuthorsLabel \o <<" ", "z">>,
      TitleLabel \o <<" ", "c">>,
      TitleLabel \o <<" ", "A", ".", NL>> \o TitleLabel \o <<" ", "a">> }

\* os.getenv("API_TOKEN", "default-token"): the default, or a value of the
\* environment
DefaultToken == <<"d">>

ApiTokens == {DefaultToken, <<"s">>}

\* what a request carries in its Authorization header: nothing, or a
\* bearer credential
RequestCredentials == {None} \cup {Some(t) : t \in ApiTokens \cup {<<"x">>}}

\* verify_token with every credential let through
verify_tokenAcceptsAll(creds, token) == TRUE

\* verify_token: "if credentials.credentials != API_TOKEN: raise
\* HTTPException(status_code=401, ...)".  TRUE when it returns.
verify_token(creds, token) == creds = token

InitMain ==
    /\ entry_point \in EntryPoints
    /\ impl = ImplOf(entry_point)
    /\ IF entry_point = "api"
       THEN /\ API_TOKEN \in ApiTokens
            /\ credentials \in RequestCredentials
            /\ pc = "m_auth"
       ELSE /\ API_TOKEN = << >>
            /\ credentials = None
            /\ pc = "m_start"
    /\ stage = "start"
    /\ outcome = "running"
    /\ err = "none"
    /\ IdleParser
    /\ IdleValidator
    /\ IdleExpander
    /\ IdleTitles
    /\ IdleBib
    /\ calls = << >>

\* the dependencies of get_citations, resolved before its body runs:
\* security = HTTPBearer() answers a request without bearer credential
\* itself, verify_token answers one whose credential differs from API_TOKEN
MainVerify ==
    /\ pc = "m_auth"
    /\ entry_point = "api"
    /\ IF credentials = None
       THEN outcome' = "not_authenticated" /\ pc' = "m_done"
       ELSE IF verify_token(credentials[1], API_TOKEN)
            THEN pc' = "m_start" /\ UNCHANGED outcome
            ELSE outcome' = "http401" /\ pc' = "m_done"
    /\ UNCHANGED <<impl, err, parserVars, validatorVars, calls, expanderVars,
                   titleVars, bibVars, entry_point, stage, API_TOKEN, credentials>>

\* the suggestion phase up to the parse of the response.  cp_main first
\* calls identify_citation_needs and leaves with sys.exit(0) when it finds
\* no target; with one target find_papers_for_targets issues one call.
MainSuggest ==
    /\ pc = "m_start"
    /\ \/ /\ entry_point = "cp_main"
          /\ calls' = Append(calls, GptCall("targets", 0))
          /\ stage' = "targets"
          /\ outcome' = "exit0"
          /\ pc' = "m_done"
          /\ UNCHANGED text
       \/ /\ \E t \in MainTexts : text' = t
          /\ calls' = IF entry_point = "cp_main"
                      THEN calls \o <<GptCall("targets", 0), GptCall("suggest", 1)>>
                      ELSE Append(calls, GptCall("suggest", 0))
          /\ stage' = "suggest"
          /\ pc' = "parse"
          /\ UNCHANGED outcome
    /\ UNCHANGED <<impl, err, blocks, pos, current_paper, suggestions,
                   validatorVars, expanderVars, titleVars, bibVars, entry_point,
                   API_TOKEN, credentials>>

\* after the parser returned: the validator is called on its result
MainValidate ==
    /\ pc = "parsed"
    /\ entry_point \in EntryPoints
    /\ stage' = "validate"
    /\ IF ChecksSuggestions(entry_point) /\ suggestions = << >>
       THEN /\ outcome' = "exit0"
            /\ pc' = "m_done"
            /\ UNCHANGED papers
       ELSE /\ papers' = suggestions
            /\ pc' = "v_url"
            /\ UNCHANGED outcome
    /\ UNCHANGED <<impl, err, parserVars, vi, validated, last_results, accepted,
                   calls, expanderVars, titleVars, bibVars, entry_point,
                   API_TOKEN, credentials>>

\* after the validator returned: the expander is called on its result
MainExpand ==
    /\ pc = "validated"
    /\ entry_point \in EntryPoints
    /\ stage' = "expand"
    /\ IF ChecksValidated(entry_point) /\ ValidatorOutput = << >>
       THEN outcome' = "exit0" /\ pc' = "m_done"
       ELSE pc' = "e_begin" /\ UNCHANGED outcome
    /\ UNCHANGED <<impl, err, parserVars, validatorVars, calls, expanderVars,
                   titleVars, bibVars, entry_point,
                   API_TOKEN, credentials>>

\* after the expander returned: generate_bibtex is called on its result
MainFormat ==
    /\ pc = "expanded"
    /\ entry_point \in EntryPoints
    /\ stage' = "format"
    /\ IF ChecksFinal(entry_point) /\ final_papers = << >>
       THEN /\ outcome' = "exit0"
            /\ pc' = "m_done"
            /\ UNCHANGED bib_papers
       ELSE /\ bib_papers' = final_papers
            /\ pc' = "b_loop"
            /\ UNCHANGED outcome
    /\ UNCHANGED <<impl, err, parserVars, validatorVars, calls, expanderVars,
                   titleVars, bi, entries, entry_point,
                   API_TOKEN, credentials>>

\* after generate_bibtex returned: the placement call, and the result is
\* handed back
MainPlace ==
    /\ pc = "b_done"
    /\ entry_point \in EntryPoints
    /\ stage' = "place"
    /\ calls' = Append(calls, GptCall("place", 0))
    /\ outcome' = "ok"
    /\ pc' = "m_done"
    /\ UNCHANGED <<impl, err, parserVars, validatorVars, expanderVars,
                   titleVars, bibVars, entry_point,
                   API_TOKEN, credentials>>

\* an exception left a phase: get_citations turns it into HTTP 500
\* ("except Exception as e: raise HTTPException(status_code=500, ...)"),
\* the main functions do not catch it
MainRaised ==
    /\ pc = "raised"
    /\ entry_point \in EntryPoints
    /\ outcome' = IF entry_point = "api" THEN "http500" ELSE "traceback"
    /\ pc' = "m_done"
    /\ UNCHANGED <<impl, err, parserVars, validatorVars, calls, expanderVars,
                   titleVars, bibVars, entry_point, stage,
                   API_TOKEN, credentials>>

NextMain ==
    \/ MainVerify
    \/ MainSuggest \/ ParseLine \/ ParseEnd
    \/ MainValidate \/ ValidateByUrl \/ FindByTitle \/ ValidateEnd
    \/ MainExpand \/ ExpandBegin \/ ExpandPaper \/ AuthorSearch
    \/ ExpandMerge \/ ExpandRank \/ ExpandFilter
    \/ MainFormat \/ GenerateEntry \/ GenerateEnd
    \/ MainPlace \/ MainRaised

SpecMain == InitMain /\ [][NextMain]_vars

\* a phase that has returned left zero candidates: no suggestion, no
\* validated record, or no selected record
ZeroSurvived ==
    \/ stage \in {"validate", "expand", "format", "place"} /\ suggestions = << >>
    \/ stage \in {"expand", "format", "place"} /\ ValidatorOutput = << >>
    \/ stage \in {"format", "place"} /\ final_papers = << >>

\* C17: in every entry point, once zero candidates survive a phase the run
\* ends without an exception: no later phase raises on the empty result.
C17_GracefulOnEmpty ==
    ZeroSurvived => (pc # "raised" /\ outcome \notin {"http500", "traceback"})

\* C17 for the two main functions
C17_GracefulOnEmptyMains == entry_point # "api" => C17_GracefulOnEmpty

\* the run has gone past the dependencies of the entry point: a phase of
\* the pipeline has started or an external call was issued
PipelineRan == stage # "start" \/ pc \notin {"m_auth", "m_done"} \/ calls # << >>

\* C21: the API runs the pipeline only for a request whose bearer
\* credential equals the configured token; any other request ends with an
\* authentication error, with no generative-service call and no index query.
C21_PipelineOnlyWithToken ==
    (entry_point = "api" /\ credentials # Some(API_TOKEN)) =>
        /\ ~PipelineRan
        /\ calls = << >>
        /\ pc = "m_done" => outcome \in {"http401", "not_authenticated"}

\* a request with a credential that is not the token was answered
C21_Witness ==
    /\ entry_point = "api"
    /\ credentials # None
    /\ credentials # Some(API_TOKEN)
    /\ pc = "m_done"
    /\ outcome = "http401"
    /\ calls = << >>

\* the candidates the validator has put into its output so far
AcceptedCands == {validated[k] : k \in 1..Len(validated)}

\* the fields of candidate i are what they were before the step
SameFields(i) ==
    /\ papers'[i].title = papers[i].title
    /\ papers'[i].authors = papers[i].authors
    /\ papers'[i].year = papers[i].year
    /\ papers'[i].arxiv_url = papers[i].arxiv_url
    /\ papers'[i].arxiv_id = papers[i].arxiv_id
    /\ papers'[i].abstract = papers[i].abstract
    /\ papers'[i].pdf_url = papers[i].pdf_url

\* C22: a candidate the validator does not accept is left unchanged: every
\* step of the validation keeps title, authors, year, sourceUrl, canonical
\* id, abstract and pdf locator of each candidate that is not in the output
\* after the step, and no candidate ever leaves the output; so after
\* validation every candidate absent from the output is as it was handed in.
C22_RejectedUnchanged ==
    /\ [][ /\ Len(papers') = Len(papers)
           /\ AcceptedCands \subseteq AcceptedCands'
           /\ \A i \in 1..Len(papers) : i \notin AcceptedCands' => SameFields(i) ]_vars
    /\ [](pc = "v_url" => \A i \in vi..Len(papers) :
              i \notin AcceptedCands /\ papers[i] \in Candidates(impl))

\* the validation ended with a candidate that answered index queries on
\* both paths and was rejected, next to one that was accepted and rewritten
C22_Witness ==
    /\ pc = "validated"
    /\ \E i, j \in 1..Len(papers) :
          /\ i \notin AcceptedCands
          /\ papers[i] \in Candidates(impl)
          /\ \E k, l \in 1..Len(calls) :
                /\ calls[k].for = i /\ calls[k].op = "id" /\ calls[k].ok
                /\ calls[l].for = i /\ calls[l].op = "title" /\ calls[l].ok
          /\ j \in AcceptedCands
          /\ papers[j] \notin Candidates(impl)

\* the operations of the history calls that belong to the validator, and
\* those that belong to the expander before its ranking call
ValidatorOps == {"id", "title"}

AuthorOps == {"key_authors", "author"}

\* the expander has been entered
ExpansionStarted ==
    \/ pc \in {"e_begin", "e_paper", "e_search", "e_rank", "e_filter", "expanded"}
    \/ \E k \in 1..Len(calls) : calls[k].op \in AuthorOps \cup {"rank"}

\* the expander is at or past its merge and ranking
RankingReached ==
    \/ pc \in {"e_rank", "e_filter", "expanded"}
    \/ all_papers # << >>
    \/ \E k \in 1..Len(calls) : calls[k].op = "rank"

\* the key-author call was issued for every validated record: one call for
\* each in RB, one call for all of them in CP
KeyAuthorCallsComplete ==
    IF impl = "RB"
    THEN \A v \in 1..Len(ValidatorOutput) :
            \E k \in 1..Len(calls) : calls[k].op = "key_authors" /\ calls[k].for = v
    ELSE \E k \in 1..Len(calls) : calls[k].op = "key_authors"

\* C23: phase ordering within one invocation.  Expansion starts only after
\* the validation loop has gone through every candidate; merge and ranking
\* come only after the key-author call for every validated record and after
\* the author loop of each has run to its end; in the order of the calls no
\* validator query follows an expander call and no key-author call or
\* author search follows the ranking call.
C23_PhaseOrdering ==
    /\ ExpansionStarted => vi > Len(papers)
    /\ RankingReached =>
          /\ KeyAuthorCallsComplete
          /\ ai = Len(key_authors) + 1
          /\ impl = "RB" => ei = Len(ValidatorOutput) + 1
    /\ (pc = "e_paper" /\ ei > 1) => ai = Len(key_authors) + 1
    /\ \A i, j \in 1..Len(calls) :
          i < j =>
            /\ ~(calls[i].op \in AuthorOps \cup {"rank"} /\ calls[j].op \in ValidatorOps)
            /\ ~(calls[i].op = "rank" /\ calls[j].op \in AuthorOps)

\* a run with two validated records reached its ranking call after both
\* key-author calls and the author searches of both
C23_Witness ==
    /\ entry_point \in EntryPoints
    /\ Len(ValidatorOutput) = 2
    /\ \E k \in 1..Len(calls) : calls[k].op = "rank"
    /\ \E k \in 1..Len(calls) : calls[k].op = "author"
    /\ \E k \in 1..Len(calls) : calls[k].op \in ValidatorOps

\* the merged pool: the validated records and the records built from the
\* results of the author searches
MergedPool ==
    IF impl = "RB" THEN initial_papers \o author_papers ELSE ValidatorOutput \o author_papers

\* a record without the note the selection loop writes into it
Unnoted(p) ==
    IF impl = "RB" THEN [p EXCEPT !.selection_reason = None] ELSE [p EXCEPT !.relevance = None]

\* the selections of the ranking response that name a record of pool
NamingSelections(pool) ==
    {k \in 1..Len(selections) : \E i \in 1..Len(pool) : Names(impl, selections[k], pool[i])}

\* C24: every record of the expander's output is an element of the merged
\* pool of validated records and author-search results of the index; a name
\* in the ranking response that matches no pooled record adds nothing.
C24_OutputWithinPool ==
    pc = "expanded" =>
        /\ \A k \in 1..Len(final_papers) :
              \E i \in 1..Len(MergedPool) : Unnoted(final_papers[k]) = Unnoted(MergedPool[i])
        /\ \A i \in 1..Len(MergedPool) :
              \/ i <= Len(ValidatorOutput)
              \/ \E id \in found : IdOf(impl, MergedPool[i]) = Some(id)
        /\ Len(final_papers) <=
              IF impl = "RB" THEN Cardinality(NamingSelections(unique_papers))
              ELSE Len(ValidatorOutput) + Cardinality(NamingSelections(author_papers))

\* the ranking response named a pooled record and a record that is in no
\* pool; the output holds the first and nothing for the second
C24_Witness ==
    /\ pc = "expanded"
    /\ Len(selections) = 2
    /\ Cardinality(NamingSelections(RankingPool)) = 1
    /\ \E k \in 1..Len(final_papers) : NamedByRanking(final_papers[k])
    /\ final_papers # << >>

\* selection k of the ranking response names a pooled record and its PAPER
\* line has no REASON line
BareSelection(k) ==
    /\ selections[k].reason = None
    /\ Lookup(impl, selections[k], RankingPool) > 0

\* the relevance note of a record
NoteOf(p) == IF impl = "RB" THEN p.selection_reason ELSE p.relevance

\* no selection that picks pool record i has a REASON line
OnlyBare(i) ==
    \A k \in 1..Len(selections) :
        Lookup(impl, selections[k], RankingPool) = i => selections[k].reason = None

\* C25: the expander does not raise because of the shape of the ranking
\* response: a PAPER line that names a pooled record and has no REASON line
\* still selects that record; the record is in the output and, unless
\* another PAPER line gave it one, it has no relevance note.
C25_BareSelectionPasses ==
    /\ err # "KeyError"
    /\ (pc \in {"expanded", "raised"} /\ selections # << >>) =>
          \A k \in 1..Len(selections) :
              BareSelection(k) =>
                  LET i == Lookup(impl, selections[k], RankingPool) IN
                  /\ pc = "expanded"
                  /\ \E j \in 1..Len(final_papers) :
                        /\ IdOf(impl, final_papers[j]) = IdOf(impl, RankingPool[i])
                        /\ (OnlyBare(i) /\ Unnoted(final_papers[j]) = Unnoted(RankingPool[i]))
                              => NoteOf(final_papers[j]) = None

\* C25 restricted to CitationPipeline.expand_by_authors
C25_BareSelectionPassesCP == impl = "CP" => C25_BareSelectionPasses

\* the loop is at a line that begins with the label "Arxiv URL:"
AtUrlLine ==
    /\ pc = "parse"
    /\ pos <= Len(ResponseLines(text))
    /\ StartsWith(CurrentLine, UrlLabel)

\* the whole text after the label, trimmed
AfterUrlLabel == Strip(Drop(CurrentLine, Len(UrlLabel)))

\* C26: for a line that begins with "Arxiv URL:" the sourceUrl read is the
\* whole text after the label, trimmed, with or without a space after the
\* colon, and the two parsers read the same sourceUrl from the same line.
C26_UrlIsTextAfterLabel ==
    /\ [][AtUrlLine => current_paper'.arxiv_url = Some(AfterUrlLabel)]_vars
    /\ [](AtUrlLine =>
            AfterLine("RB", current_paper, CurrentLine).arxiv_url =
            AfterLine("CP", current_paper, CurrentLine).arxiv_url)

\* C26 for CitationPipeline.find_papers_for_targets alone
C26_UrlIsTextAfterLabelCP ==
    [][(impl = "CP" /\ AtUrlLine) => current_paper'.arxiv_url = Some(AfterUrlLabel)]_vars

\* the year line of an entry whose year field is empty
EmptyYearLine == <<NL>> \o YearField \o <<"}", ",", NL>>

\* C27: for a record without a publication year the citation key is the
\* family name alone and the year field of the entry is empty; the key
\* holds no textual rendering of the missing value.
C27_MissingYearLeftOut ==
    \A k \in 1..Len(entries) :
        bib_papers[k].year = None =>
            /\ IsFamilyName(entries[k].key, bib_papers[k])
            /\ Contains(entries[k].entry, EmptyYearLine)
            /\ ~Contains(entries[k].key, NoneText)

\* C27 for CitationPipeline.generate_bibtex alone
C27_MissingYearLeftOutCP == impl = "CP" => C27_MissingYearLeftOut

=============================================================================
